---------------------------- MODULE Spec2Model ----------------------------
(***************************************************************************)
(* Grade Moderator (src/app.py): one Streamlit script run, from the        *)
(* uploaded CSV to the moderated table, and the pure helpers it applies.    *)
(*                                                                         *)
(* Numbers.  A float is a record [k, v]: k = "num" with v the value in      *)
(* units of 1/Scale, k = "nan" (pandas missing / IEEE NaN), k = "inf" with  *)
(* v the sign (IEEE infinity), k = "none" (Python None).  Arithmetic on     *)
(* "num" values is fixed point with one rounding per expression.            *)
(*                                                                         *)
(* Text.  A CSV cell is a sequence of words; substring tests are            *)
(* contiguous-subsequence tests, case folding is per word.                  *)
(***************************************************************************)
EXTENDS Integers, Sequences, FiniteSets, TLC

VARIABLES
    uploaded_file,   \* [kind, columns, rows]: the file_uploader's value
    df_clean,        \* rows of the cleaned table (sequence of col -> cell)
    max_points_map,  \* col -> float or None, from the Points Possible row
    numeric_cols,    \* candidate scored columns, in column order
    score_col,       \* selected column, "None" when not selected
    max_score,       \* "Max Points Possible"
    orig_mean,       \* sidebar statistics read by the gentle boost
    orig_std,
    tgt_mean,        \* st.session_state.tgt_mean
    tgt_std,         \* st.session_state.tgt_std
    avoid_cusps,     \* checkbox
    analysis_df,     \* sequence of grade records
    ui,              \* set of outputs shown to the user in this run
    pc,              \* position of the script
    fn               \* [op, arg, out]: one application of a pure helper

vars == << uploaded_file, df_clean, max_points_map, numeric_cols, score_col,
           max_score, orig_mean, orig_std, tgt_mean, tgt_std, avoid_cusps,
           analysis_df, ui, pc, fn >>

---------------------------------------------------------------------------
(* Floats *)

Scale == 10

Num(n) == [k |-> "num", v |-> n]
NaN == [k |-> "nan", v |-> 0]
Inf(s) == [k |-> "inf", v |-> s]
None == [k |-> "none", v |-> 0]

Whole(n) == Num(n * Scale)
Half(n) == Num(n * Scale + Scale \div 2)

IsNum(x) == x.k = "num"
isna(x) == x.k = "nan"

Sign(n) == IF n > 0 THEN 1 ELSE IF n < 0 THEN -1 ELSE 0
Abs(n) == IF n < 0 THEN -n ELSE n
Min(a, b) == IF a < b THEN a ELSE b

\* a / b rounded to the nearest integer, b # 0
RDiv(a, b) ==
    LET q == (2 * Abs(a) + Abs(b)) \div (2 * Abs(b))
    IN  Sign(a) * Sign(b) * q

FAdd(x, y) ==
    IF x.k = "nan" \/ y.k = "nan" THEN NaN
    ELSE IF x.k = "inf" /\ y.k = "inf" THEN (IF x.v = y.v THEN x ELSE NaN)
    ELSE IF x.k = "inf" THEN x
    ELSE IF y.k = "inf" THEN y
    ELSE Num(x.v + y.v)

FNeg(x) == IF x.k = "nan" THEN NaN ELSE [k |-> x.k, v |-> -x.v]

FSub(x, y) == FAdd(x, FNeg(y))

FMul(x, y) ==
    IF x.k = "nan" \/ y.k = "nan" THEN NaN
    ELSE IF x.k = "inf" \/ y.k = "inf"
         THEN (IF Sign(x.v) * Sign(y.v) = 0 THEN NaN
               ELSE Inf(Sign(x.v) * Sign(y.v)))
    ELSE Num(RDiv(x.v * y.v, Scale))

\* numpy division: x/0 is +-inf, 0/0 is nan, no exception
FDiv(x, y) ==
    IF x.k = "nan" \/ y.k = "nan" THEN NaN
    ELSE IF x.k = "inf" /\ y.k = "inf" THEN NaN
    ELSE IF x.k = "inf" THEN Inf(x.v * (IF y.v < 0 THEN -1 ELSE 1))
    ELSE IF y.k = "inf" THEN Num(0)
    ELSE IF y.v = 0 THEN (IF x.v = 0 THEN NaN ELSE Inf(Sign(x.v)))
    ELSE Num(RDiv(x.v * Scale, y.v))

\* Python round(x) on a float: ties go to the even integer
round(v) ==
    LET q == v \div Scale
        r == v % Scale
    IN  IF 2 * r < Scale THEN q
        ELSE IF 2 * r > Scale THEN q + 1
        ELSE IF q % 2 = 0 THEN q ELSE q + 1

---------------------------------------------------------------------------
(* Grade boundaries and the pure helpers *)

HD == 80
DI == 70
CR == 60
PA == 50
NN == 0

BOUNDARIES == [g \in {"HD", "DI", "CR", "PA", "NN"} |->
                 CASE g = "HD" -> HD [] g = "DI" -> DI [] g = "CR" -> CR
                   [] g = "PA" -> PA [] OTHER -> NN]

ORDERED_CATS == << "NN", "PA", "CR", "DI", "HD" >>

categorize_percentage_gt(pct) ==
    IF isna(pct) THEN "NN"
    ELSE LET p == round(pct.v)
         IN  IF p > BOUNDARIES["HD"] THEN "HD"
             ELSE IF p > BOUNDARIES["DI"] THEN "DI"
             ELSE IF p > BOUNDARIES["CR"] THEN "CR"
             ELSE IF p > BOUNDARIES["PA"] THEN "PA"
             ELSE "NN"

categorize_percentage(pct) ==
    IF isna(pct) THEN "NN"
    ELSE LET p == round(pct.v)
         IN  IF p >= BOUNDARIES["HD"] THEN "HD"
             ELSE IF p >= BOUNDARIES["DI"] THEN "DI"
             ELSE IF p >= BOUNDARIES["CR"] THEN "CR"
             ELSE IF p >= BOUNDARIES["PA"] THEN "PA"
             ELSE "NN"

is_cusp_rounded(pct) ==
    IF isna(pct) THEN FALSE
    ELSE \E g \in DOMAIN BOUNDARIES :
            /\ BOUNDARIES[g] > 0
            /\ round(pct.v) = BOUNDARIES[g] - 1

is_cusp(pct) ==
    IF isna(pct) THEN FALSE
    ELSE \E g \in DOMAIN BOUNDARIES :
            /\ BOUNDARIES[g] > 0
            /\ (BOUNDARIES[g] - 2) * Scale <= pct.v
            /\ pct.v < BOUNDARIES[g] * Scale

\* round() of a NaN or an infinity raises (ValueError / OverflowError)
clean_cusps_raises(pct) == ~IsNum(pct)

\* int(pct) in place of round(pct)
clean_cusps_trunc(pct) ==
    LET rounded == pct.v \div Scale
    IN  IF 45 <= rounded /\ rounded <= 47 THEN Whole(44)
        ELSE IF 48 <= rounded /\ rounded <= 49 THEN Whole(50)
        ELSE IF 58 <= rounded /\ rounded <= 59 THEN Whole(60)
        ELSE IF 68 <= rounded /\ rounded <= 69 THEN Whole(70)
        ELSE IF 78 <= rounded /\ rounded <= 79 THEN Whole(80)
        ELSE pct

clean_cusps_typo(pct) ==
    LET rounded == round(pct.v)
    IN  IF 45 <= rounded /\ rounded <= 57 THEN Whole(44)
        ELSE IF 48 <= rounded /\ rounded <= 49 THEN Whole(50)
        ELSE IF 58 <= rounded /\ rounded <= 59 THEN Whole(60)
        ELSE IF 68 <= rounded /\ rounded <= 69 THEN Whole(70)
        ELSE IF 78 <= rounded /\ rounded <= 79 THEN Whole(80)
        ELSE pct

clean_cusps(pct) ==
    LET rounded == round(pct.v)
    IN  IF 45 <= rounded /\ rounded <= 47 THEN Whole(44)
        ELSE IF 48 <= rounded /\ rounded <= 49 THEN Whole(50)
        ELSE IF 58 <= rounded /\ rounded <= 59 THEN Whole(60)
        ELSE IF 68 <= rounded /\ rounded <= 69 THEN Whole(70)
        ELSE IF 78 <= rounded /\ rounded <= 79 THEN Whole(80)
        ELSE pct

---------------------------------------------------------------------------
(* Text cells *)

MARKER == << "Points", "Possible" >>

LowerWord(w) ==
    CASE w = "Points" -> "points"
      [] w = "Possible" -> "possible"
      [] w = "Test" -> "test"
      [] w = "TEST" -> "test"
      [] w = "Student" -> "student"
      [] w = "Student," -> "student,"
      [] w = "Ann" -> "ann"
      [] OTHER -> w

Lower(cell) == [i \in 1..Len(cell) |-> LowerWord(cell[i])]

\* pat in cell (Python substring test), at word granularity
Contains(cell, pat) ==
    \E i \in 1..(Len(cell) - Len(pat) + 1) :
        SubSeq(cell, i, i + Len(pat) - 1) = pat

\* str(value): read_csv turns an empty cell into NaN, whose str is "nan"
str(cell) == IF cell = << >> THEN << "nan" >> ELSE cell

IsNumeral(cell) ==
    Len(cell) = 1 /\ cell[1] \in {"0", "7", "20", "40", "50", "60", "100"}

NumeralValue(w) ==
    CASE w = "0" -> 0 [] w = "7" -> 7 [] w = "20" -> 20 [] w = "40" -> 40
      [] w = "50" -> 50 [] w = "60" -> 60 [] OTHER -> 100

\* float(cell) inside try/except: None when float() raises
float_or_None(cell) ==
    IF cell = << >> THEN NaN
    ELSE IF IsNumeral(cell) THEN Whole(NumeralValue(cell[1]))
    ELSE None

\* pd.to_numeric(..., errors='coerce') on one cell
to_numeric(cell) ==
    IF IsNumeral(cell) THEN Whole(NumeralValue(cell[1])) ELSE NaN

---------------------------------------------------------------------------
(* Table cleaning, lines 62-98 *)

SCAN_ROWS == 5

ID_COLUMNS == {"Student", "ID", "SIS User ID", "SIS Login ID", "Section"}

RECURSIVE ScanPointsRow(_, _, _)
\* for i in range(min(5, len(df))): ... break; 0-based index, -1 if none
ScanPointsRow(columns, rows, i) ==
    IF i >= Min(SCAN_ROWS, Len(rows)) THEN -1
    ELSE IF Contains(str(rows[i + 1][columns[1]]), MARKER) THEN i
    ELSE ScanPointsRow(columns, rows, i + 1)

ScanAllRows(columns, rows) ==
    IF \E i \in 1..Len(rows) : Contains(str(rows[i][columns[1]]), MARKER)
    THEN (CHOOSE i \in 1..Len(rows) :
            /\ Contains(str(rows[i][columns[1]]), MARKER)
            /\ \A j \in 1..(i - 1) : ~Contains(str(rows[j][columns[1]]), MARKER)) - 1
    ELSE -1

points_row_index(columns, rows) == ScanPointsRow(columns, rows, 0)

ColumnSet(columns) == {columns[i] : i \in 1..Len(columns)}

RECURSIVE SelectSeq2(_, _)
SelectSeq2(s, keep) ==
    IF s = << >> THEN << >>
    ELSE IF keep[1] THEN << Head(s) >> \o SelectSeq2(Tail(s), Tail(keep))
    ELSE SelectSeq2(Tail(s), Tail(keep))

IsTestStudent(cell) ==
    \/ Contains(Lower(str(cell)), << "test", "student" >>)
    \/ Contains(Lower(str(cell)), << "student,", "test" >>)

RemoveTestStudent(columns, rows) ==
    IF "Student" \in ColumnSet(columns)
    THEN SelectSeq2(rows, [i \in 1..Len(rows) |-> ~IsTestStudent(rows[i]["Student"])])
    ELSE rows

CoerceRows(columns, rows) ==
    [i \in 1..Len(rows) |->
        [c \in ColumnSet(columns) |->
            IF c \in ID_COLUMNS THEN rows[i][c] ELSE to_numeric(rows[i][c])]]

FindNumericCols(columns, rows) ==
    SelectSeq2(columns,
        [j \in 1..Len(columns) |->
            /\ columns[j] \notin ID_COLUMNS
            /\ \E i \in 1..Len(rows) : ~isna(to_numeric(rows[i][columns[j]]))])

---------------------------------------------------------------------------
(* Series statistics and the curve, lines 125-128 and 205-216 *)

RECURSIVE SqrtSearch(_, _, _)
\* greatest r in lo..hi with r * r <= n
SqrtSearch(n, lo, hi) ==
    IF lo >= hi THEN lo
    ELSE LET mid == (lo + hi + 1) \div 2
         IN  IF mid * mid <= n THEN SqrtSearch(n, mid, hi)
             ELSE SqrtSearch(n, lo, mid - 1)

\* sqrt(n) to the nearest unit
Sqrt(n) ==
    LET r == SqrtSearch(n, 0, Min(n, 46340))
    IN  IF n - r * r > r THEN r + 1 ELSE r

RECURSIVE SumSeq(_)
SumSeq(s) == IF s = << >> THEN 0 ELSE Head(s) + SumSeq(Tail(s))

\* Series.dropna()
dropna(vals) == SelectSeq(vals, LAMBDA x : ~isna(x))

HasInf(vals) == \E i \in 1..Len(vals) : vals[i].k = "inf"

\* Series.mean(): missing values skipped, NaN for an empty series
mean(vals) ==
    LET xs == dropna(vals)
    IN  IF xs = << >> THEN NaN
        ELSE IF HasInf(xs)
             THEN (IF \A i, j \in 1..Len(xs) :
                        (xs[i].k = "inf" /\ xs[j].k = "inf") => xs[i].v = xs[j].v
                   THEN Inf(xs[CHOOSE i \in 1..Len(xs) : xs[i].k = "inf"].v)
                   ELSE NaN)
        ELSE Num(RDiv(SumSeq([i \in 1..Len(xs) |-> xs[i].v]), Len(xs)))

\* Series.std(): sample standard deviation (ddof = 1), NaN below two values
std(vals) ==
    LET xs == dropna(vals)
        m == mean(xs)
    IN  IF Len(xs) < 2 THEN NaN
        ELSE IF HasInf(xs) THEN NaN
        ELSE Num(Sqrt(RDiv(SumSeq([i \in 1..Len(xs) |->
                                      (xs[i].v - m.v) * (xs[i].v - m.v)]),
                           Len(xs) - 1)))

\* (raw / max_score) * 100
to_percentage(raw, max) ==
    IF IsNum(raw) /\ IsNum(max) /\ max.v # 0
    THEN Num(RDiv(raw.v * 100 * Scale, max.v))
    ELSE FMul(FDiv(raw, max), Whole(100))

\* (pct / 100) * max_score
to_raw(pct, max) ==
    IF IsNum(pct) /\ IsNum(max)
    THEN Num(RDiv(pct.v * max.v, 100 * Scale))
    ELSE FMul(FDiv(pct, Whole(100)), max)

\* target_mean + (pct - cur_mean) * (target_std / cur_std)
curve(pct, cur_mean, cur_std, target_mean, target_std) ==
    IF IsNum(pct) /\ IsNum(cur_mean) /\ IsNum(cur_std) /\ cur_std.v # 0
       /\ IsNum(target_mean) /\ IsNum(target_std)
    THEN Num(target_mean.v + RDiv((pct.v - cur_mean.v) * target_std.v, cur_std.v))
    ELSE FAdd(target_mean, FMul(FSub(pct, cur_mean), FDiv(target_std, cur_std)))

PCT_MIN == 0
PCT_MAX == 100

\* Series.clip(0, 100): NaN stays NaN
clip(x) ==
    IF x.k = "nan" THEN NaN
    ELSE IF x.k = "inf" THEN (IF x.v > 0 THEN Whole(PCT_MAX) ELSE Whole(PCT_MIN))
    ELSE IF x.v < PCT_MIN * Scale THEN Whole(PCT_MIN)
    ELSE IF x.v > PCT_MAX * Scale THEN Whole(PCT_MAX)
    ELSE x

---------------------------------------------------------------------------
(* Inputs *)

MaxRows == 3
MaxCleanRows == 6

SCORE == "Final Score"

NoFile == [kind |-> "none", columns |-> << >>, rows |-> << >>]
Unreadable == [kind |-> "unreadable", columns |-> << >>, rows |-> << >>]

Layouts == { << "Student", "ID", SCORE >>, << "Student", "ID" >>, << "ID", SCORE >> }

StudentCells == { << "Ann" >>, << "test", "Student" >>, << "Points", "Possible" >> }
ScoreCells == { << "40" >>, << "50" >>, << "60" >>, << "abc" >> }

CellChoices(c, students, scores) ==
    IF c = "Student" THEN students
    ELSE IF c = "ID" THEN { << "7" >> }
    ELSE scores

RowsOf(columns, students, scores) ==
    { r \in [ColumnSet(columns) -> students \cup scores \cup { << "7" >> }] :
        \A c \in ColumnSet(columns) : r[c] \in CellChoices(c, students, scores) }

TablesOf(rowset, n) == UNION { [1..m -> rowset] : m \in 0..n }

Tables(columns, students, scores, n) == TablesOf(RowsOf(columns, students, scores), n)

Uploads ==
    { NoFile, Unreadable } \cup
    UNION { { [kind |-> "csv", columns |-> L, rows |-> t] :
                t \in Tables(L, StudentCells, ScoreCells, MaxRows) } : L \in Layouts }

TargetMeans == { Half(49), Whole(65) }
TargetStds == { Whole(15), Whole(100) }

\* what the user may type into "Max Points Possible" instead of the default
MaxInputs == { Whole(0) }

FnIdle(x) == [op |-> "idle", arg |-> x, cat |-> "", cusp |-> FALSE,
              pct |-> None, raised |-> FALSE]

Fresh ==
    /\ df_clean = << >>
    /\ max_points_map = << >>
    /\ numeric_cols = << >>
    /\ score_col = "None"
    /\ max_score = Whole(100)
    /\ orig_mean = None
    /\ orig_std = None
    /\ avoid_cusps = FALSE
    /\ analysis_df = << >>
    /\ ui = {}

Init ==
    /\ Fresh
    /\ uploaded_file \in Uploads
    /\ tgt_mean \in TargetMeans
    /\ tgt_std \in TargetStds
    /\ pc = "upload"
    /\ fn = FnIdle(NaN)

---------------------------------------------------------------------------
(* The sidebar, lines 47-187 *)

\* line 62: no file uploaded, the data block is skipped
SkipNoFile ==
    /\ pc = "upload"
    /\ uploaded_file.kind = "none"
    /\ pc' = "controls"
    /\ UNCHANGED << uploaded_file, df_clean, max_points_map, numeric_cols,
                    score_col, max_score, orig_mean, orig_std, tgt_mean,
                    tgt_std, avoid_cusps, analysis_df, ui, fn >>

\* lines 63-65, 130-131: pd.read_csv raises, the except reports it
ReadCsvFails ==
    /\ pc = "upload"
    /\ uploaded_file.kind = "unreadable"
    /\ ui' = ui \cup {"error: Error loading file"}
    /\ pc' = "controls"
    /\ UNCHANGED << uploaded_file, df_clean, max_points_map, numeric_cols,
                    score_col, max_score, orig_mean, orig_std, tgt_mean,
                    tgt_std, avoid_cusps, analysis_df, fn >>

\* lines 67-84: Detect Points Possible Row
DetectPointsRow ==
    /\ pc = "upload"
    /\ uploaded_file.kind = "csv"
    /\ LET columns == uploaded_file.columns
           df == uploaded_file.rows
           k == points_row_index(columns, df)
       IN  IF k # -1
           THEN /\ ui' = ui \cup {"toast: Canvas format detected."}
                /\ max_points_map' =
                       [c \in ColumnSet(columns) |-> float_or_None(df[k + 1][c])]
                /\ df_clean' = SubSeq(df, k + 2, Len(df))
           ELSE /\ ui' = ui
                /\ max_points_map' = << >>
                /\ df_clean' = df
    /\ pc' = "remove_test"
    /\ UNCHANGED << uploaded_file, numeric_cols, score_col, max_score,
                    orig_mean, orig_std, tgt_mean, tgt_std, avoid_cusps,
                    analysis_df, fn >>

\* lines 86-89: Remove Test Student
RemoveTestStudents ==
    /\ pc = "remove_test"
    /\ df_clean' = RemoveTestStudent(uploaded_file.columns, df_clean)
    /\ pc' = "find_numeric"
    /\ UNCHANGED << uploaded_file, max_points_map, numeric_cols, score_col,
                    max_score, orig_mean, orig_std, tgt_mean, tgt_std,
                    avoid_cusps, analysis_df, ui, fn >>

\* lines 91-98: Find Numeric Cols
FindNumeric ==
    /\ pc = "find_numeric"
    /\ numeric_cols' = FindNumericCols(uploaded_file.columns, df_clean)
    /\ df_clean' = CoerceRows(uploaded_file.columns, df_clean)
    /\ pc' = "select"
    /\ UNCHANGED << uploaded_file, max_points_map, score_col, max_score,
                    orig_mean, orig_std, tgt_mean, tgt_std, avoid_cusps,
                    analysis_df, ui, fn >>

\* Python truth value of max_points_map[col]: None and 0.0 are false
Truthy(x) == ~(x.k = "none" \/ (x.k = "num" /\ x.v = 0))

detected_max(col) ==
    IF col \in DOMAIN max_points_map /\ Truthy(max_points_map[col])
    THEN max_points_map[col]
    ELSE Whole(100)

Column(rows, col) == [i \in 1..Len(rows) |-> rows[i][col]]

\* lines 100-128: column and maximum chosen, original statistics computed
SelectColumn ==
    /\ pc = "select"
    /\ numeric_cols # << >>
    /\ \E j \in 1..Len(numeric_cols) :
         \E m \in {detected_max(numeric_cols[j])} \cup MaxInputs :
           LET temp_series == dropna(Column(df_clean, numeric_cols[j]))
               temp_pct == [i \in 1..Len(temp_series) |->
                               to_percentage(temp_series[i], m)]
           IN  /\ score_col' = numeric_cols[j]
               /\ max_score' = m
               /\ orig_mean' = mean(temp_pct)
               /\ orig_std' = std(temp_pct)
    /\ ui' = ui \cup {"selectbox: Column to Moderate", "number_input: Max Points Possible"}
    /\ pc' = "controls"
    /\ UNCHANGED << uploaded_file, df_clean, max_points_map, numeric_cols,
                    tgt_mean, tgt_std, avoid_cusps, analysis_df, fn >>

\* line 100 false: no candidate scored column, nothing is selected or shown
NoNumericCols ==
    /\ pc = "select"
    /\ numeric_cols = << >>
    /\ pc' = "controls"
    /\ UNCHANGED << uploaded_file, df_clean, max_points_map, numeric_cols,
                    score_col, max_score, orig_mean, orig_std, tgt_mean,
                    tgt_std, avoid_cusps, analysis_df, ui, fn >>

\* lines 136-187: gentle boost button, target inputs, avoid_cusps checkbox
Controls ==
    /\ pc = "controls"
    /\ \E pressed \in BOOLEAN, checked \in BOOLEAN :
         /\ IF score_col # "None" /\ pressed
            THEN /\ tgt_mean' = FAdd(orig_mean, Half(1))
                 /\ tgt_std' = orig_std
            ELSE UNCHANGED << tgt_mean, tgt_std >>
         /\ avoid_cusps' = checked
         /\ ui' = ui \cup (IF score_col # "None" /\ pressed
                           THEN {"toast: Targets set"} ELSE {})
                    \cup (IF checked THEN {"info: Logic"} ELSE {})
    /\ pc' = "main"
    /\ UNCHANGED << uploaded_file, df_clean, max_points_map, numeric_cols,
                    score_col, max_score, orig_mean, orig_std, analysis_df,
                    fn >>

---------------------------------------------------------------------------
(* The main section, lines 191-361 *)

REPORT == {"metrics", "chart", "migration_table", "category_tables",
           "cusp_table", "download_button"}

s_num_col == IF "SIS Login ID" \in ColumnSet(uploaded_file.columns)
             THEN "SIS Login ID" ELSE "ID"

cols_to_keep == {"Student", "ID", score_col, s_num_col}

\* line 198: rows of the selected column with a score
Scored == SelectSeq(df_clean, LAMBDA r : ~isna(r[score_col]))

\* line 202
guarded_max == IF IsNum(max_score) /\ max_score.v = 0 THEN Whole(100) ELSE max_score

Pct_Original == [i \in 1..Len(Scored) |-> to_percentage(Scored[i][score_col], guarded_max)]

cur_mean == mean(Pct_Original)
cur_std == std(Pct_Original)

\* lines 211-216: curve, then clip
Pct_Clipped ==
    [i \in 1..Len(Scored) |->
        clip(IF IsNum(cur_std) /\ cur_std.v = 0
             THEN Pct_Original[i]
             ELSE curve(Pct_Original[i], cur_mean, cur_std, tgt_mean, tgt_std))]

\* lines 219-228
Pct_Adjusted ==
    [i \in 1..Len(Scored) |->
        IF avoid_cusps THEN clean_cusps(Pct_Clipped[i]) ELSE Pct_Clipped[i]]

MainGuard == uploaded_file.kind # "none" /\ score_col # "None"

\* line 198 raises KeyError: a kept column is not in the table
MainKeyError ==
    /\ pc = "main"
    /\ MainGuard
    /\ ~(cols_to_keep \subseteq ColumnSet(uploaded_file.columns))
    /\ ui' = ui \cup {"error: Error processing file"}
    /\ pc' = "end"
    /\ UNCHANGED << uploaded_file, df_clean, max_points_map, numeric_cols,
                    score_col, max_score, orig_mean, orig_std, tgt_mean,
                    tgt_std, avoid_cusps, analysis_df, fn >>

\* line 228 raises inside clean_cusps: the frame keeps the clipped column
MainCleanRaises ==
    /\ pc = "main"
    /\ MainGuard
    /\ cols_to_keep \subseteq ColumnSet(uploaded_file.columns)
    /\ avoid_cusps
    /\ \E i \in 1..Len(Scored) : clean_cusps_raises(Pct_Clipped[i])
    /\ max_score' = guarded_max
    /\ analysis_df' =
           [i \in 1..Len(Scored) |->
               [Raw_Original |-> Scored[i][score_col],
                Pct_Original |-> Pct_Original[i],
                Pct_Adjusted |-> Pct_Clipped[i]]]
    /\ ui' = ui \cup {"error: Error processing file"}
    /\ pc' = "end"
    /\ UNCHANGED << uploaded_file, df_clean, max_points_map, numeric_cols,
                    score_col, orig_mean, orig_std, tgt_mean, tgt_std,
                    avoid_cusps, fn >>

\* lines 192-355: calculations, report and export
MainCalc ==
    /\ pc = "main"
    /\ MainGuard
    /\ cols_to_keep \subseteq ColumnSet(uploaded_file.columns)
    /\ ~(avoid_cusps /\ \E i \in 1..Len(Scored) : clean_cusps_raises(Pct_Clipped[i]))
    /\ max_score' = guarded_max
    /\ analysis_df' =
           [i \in 1..Len(Scored) |->
               [Raw_Original |-> Scored[i][score_col],
                Pct_Original |-> Pct_Original[i],
                Pct_Adjusted |-> Pct_Adjusted[i],
                Raw_Adjusted |-> to_raw(Pct_Adjusted[i], guarded_max),
                Cat_Original |-> categorize_percentage(Pct_Original[i]),
                Cat_Adjusted |-> categorize_percentage(Pct_Adjusted[i]),
                Is_Cusp_Original |-> is_cusp(Pct_Original[i]),
                Is_Cusp_Adjusted |-> is_cusp(Pct_Adjusted[i])]]
    /\ ui' = ui \cup REPORT
    /\ pc' = "end"
    /\ UNCHANGED << uploaded_file, df_clean, max_points_map, numeric_cols,
                    score_col, orig_mean, orig_std, tgt_mean, tgt_std,
                    avoid_cusps, fn >>

\* lines 360-361: nothing to moderate
MainSkipped ==
    /\ pc = "main"
    /\ ~MainGuard
    /\ ui' = ui \cup (IF uploaded_file.kind = "none"
                      THEN {"info: Please upload a CSV file to proceed."}
                      ELSE {})
    /\ pc' = "end"
    /\ UNCHANGED << uploaded_file, df_clean, max_points_map, numeric_cols,
                    score_col, max_score, orig_mean, orig_std, tgt_mean,
                    tgt_std, avoid_cusps, analysis_df, fn >>

Next ==
    \/ SkipNoFile
    \/ ReadCsvFails
    \/ DetectPointsRow
    \/ RemoveTestStudents
    \/ FindNumeric
    \/ SelectColumn
    \/ NoNumericCols
    \/ Controls
    \/ MainKeyError
    \/ MainCleanRaises
    \/ MainCalc
    \/ MainSkipped

Spec == Init /\ [][Next]_vars

---------------------------------------------------------------------------
(* Table cleaning alone, on tables long enough to pass the scanned rows *)

CleanStudentCells == { << "Row:", "Points", "Possible" >>, << "points", "possible" >> }
CleanScoreCells == { << "20" >>, << "abc" >>, << >> }

\* every marker row, and the other rows with a score cell that is not empty
CleanRows ==
    { r \in RowsOf(<< "Student", "ID", SCORE >>, CleanStudentCells, CleanScoreCells) :
        Contains(r["Student"], MARKER) \/ r[SCORE] # << >> }

CleanUploads ==
    { [kind |-> "csv", columns |-> << "Student", "ID", SCORE >>, rows |-> t] :
        t \in TablesOf(CleanRows, MaxCleanRows) }

InitClean ==
    /\ Fresh
    /\ uploaded_file \in CleanUploads
    /\ tgt_mean = Whole(65)
    /\ tgt_std = Whole(15)
    /\ pc = "upload"
    /\ fn = FnIdle(NaN)

NextClean ==
    \/ DetectPointsRow
    \/ RemoveTestStudents
    \/ FindNumeric

SpecClean == InitClean /\ [][NextClean]_vars

---------------------------------------------------------------------------
(* The pure helpers applied to one percentage *)

FnArgs == {NaN} \cup { Num(n) : n \in (PCT_MIN * Scale)..(PCT_MAX * Scale) }

InitFn ==
    /\ Fresh
    /\ uploaded_file = NoFile
    /\ tgt_mean = Whole(65)
    /\ tgt_std = Whole(15)
    /\ pc = "fn"
    /\ fn \in { FnIdle(x) : x \in FnArgs }

FnUnchanged ==
    UNCHANGED << uploaded_file, df_clean, max_points_map, numeric_cols,
                 score_col, max_score, orig_mean, orig_std, tgt_mean, tgt_std,
                 avoid_cusps, analysis_df, ui, pc >>

FnCategorize ==
    /\ pc = "fn"
    /\ fn.op = "idle"
    /\ fn' = [fn EXCEPT !.op = "categorize_percentage",
                        !.cat = categorize_percentage(fn.arg)]
    /\ FnUnchanged

FnIsCusp ==
    /\ pc = "fn"
    /\ fn.op = "idle"
    /\ fn' = [fn EXCEPT !.op = "is_cusp", !.cusp = is_cusp(fn.arg)]
    /\ FnUnchanged

FnCleanCusps ==
    /\ pc = "fn"
    /\ fn.op = "idle"
    /\ fn' = IF clean_cusps_raises(fn.arg)
             THEN [fn EXCEPT !.op = "clean_cusps", !.raised = TRUE]
             ELSE [fn EXCEPT !.op = "clean_cusps", !.pct = clean_cusps(fn.arg)]
    /\ FnUnchanged

NextFn ==
    \/ FnCategorize
    \/ FnIsCusp
    \/ FnCleanCusps

SpecFn == InitFn /\ [][NextFn]_vars

---------------------------------------------------------------------------
(* Properties of the pure helpers (SpecFn) *)

\* rounding with ties away from zero, as the design document words it
RoundHalfAway(v) ==
    LET q == v \div Scale
        r == v % Scale
    IN  IF 2 * r < Scale THEN q
        ELSE IF 2 * r > Scale THEN q + 1
        ELSE IF v >= 0 THEN q + 1 ELSE q

BandNames == {"NN", "PA", "CR", "DI", "HD"}

LowerBound(band) ==
    CASE band = "NN" -> 0 [] band = "PA" -> 50 [] band = "CR" -> 60
      [] band = "DI" -> 70 [] OTHER -> 80

Rank(band) ==
    CASE band = "NN" -> 0 [] band = "PA" -> 1 [] band = "CR" -> 2
      [] band = "DI" -> 3 [] OTHER -> 4

\* the highest band whose lower bound is <= n
HighestBand(n) ==
    CHOOSE b \in BandNames :
        /\ LowerBound(b) <= n
        /\ \A c \in BandNames : LowerBound(c) <= n => LowerBound(c) <= LowerBound(b)

CategoryRule ==
    /\ fn.cat \in BandNames
    /\ fn.cat = IF isna(fn.arg) THEN "NN"
                ELSE HighestBand(RoundHalfAway(fn.arg.v))

CategoryExamples ==
    /\ fn.arg = Whole(50) => fn.cat = "PA"
    /\ fn.arg = Whole(59) => fn.cat = "PA"
    /\ fn.arg = Whole(60) => fn.cat = "CR"
    /\ fn.arg = Whole(69) => fn.cat = "CR"
    /\ fn.arg = Whole(70) => fn.cat = "DI"
    /\ fn.arg = Whole(79) => fn.cat = "DI"
    /\ fn.arg = Whole(80) => fn.cat = "HD"
    /\ fn.arg = Whole(100) => fn.cat = "HD"
    /\ fn.arg = Half(49) => fn.cat = "PA"

\* C1 as stated: categorize_percentage(p) is the highest band whose lower
\* bound is <= p rounded half away from zero, NN for a missing p, with the
\* listed examples, among them that a value just below 50 (the greatest
\* representable one, 50 - 1/Scale) gives NN.
C1_Original ==
    fn.op = "categorize_percentage" =>
        /\ CategoryRule
        /\ CategoryExamples
        /\ fn.arg = Num(50 * Scale - 1) => fn.cat = "NN"

\* C1 amended: categorize_percentage(p) is the highest band whose lower
\* bound is <= p rounded half away from zero, NN for a missing p, with the
\* listed examples; values below 49.5 give NN, and values from 49.5 up to 50
\* round to 50 and give PA.
C1_Amended ==
    fn.op = "categorize_percentage" =>
        /\ CategoryRule
        /\ CategoryExamples
        /\ (IsNum(fn.arg) /\ 2 * fn.arg.v < 99 * Scale) => fn.cat = "NN"
        /\ (IsNum(fn.arg) /\ 2 * fn.arg.v >= 99 * Scale /\ fn.arg.v < 50 * Scale)
              => fn.cat = "PA"

C1_Witness ==
    /\ fn.op = "categorize_percentage"
    /\ fn.arg = Num(50 * Scale - 1)
    /\ fn.cat = "PA"

\* C4 as stated: is_cusp(p) is true exactly when p rounds to boundary - 1
\* for a boundary > 0 (49, 59, 69, 79); is_cusp(79) is true, is_cusp(78) is
\* false, a missing p is not a cusp.
C4_Original ==
    fn.op = "is_cusp" =>
        /\ fn.cusp = (IsNum(fn.arg) /\ RoundHalfAway(fn.arg.v) \in {49, 59, 69, 79})
        /\ fn.arg = Whole(79) => fn.cusp
        /\ fn.arg = Whole(78) => ~fn.cusp

\* C4 amended: is_cusp(p) is true exactly when boundary - 2 <= p < boundary,
\* on the unrounded p, for a boundary in {50, 60, 70, 80}; is_cusp(79) and
\* is_cusp(78) are both true, is_cusp(77.9) and is_cusp(80) are false, and a
\* missing p is not a cusp.
C4_Amended ==
    fn.op = "is_cusp" =>
        /\ fn.cusp = (/\ IsNum(fn.arg)
                      /\ \E b \in {50, 60, 70, 80} :
                            (b - 2) * Scale <= fn.arg.v /\ fn.arg.v < b * Scale)
        /\ fn.arg = Whole(79) => fn.cusp
        /\ fn.arg = Whole(78) => fn.cusp
        /\ fn.arg = Num(78 * Scale - 1) => ~fn.cusp
        /\ fn.arg = Whole(80) => ~fn.cusp
        /\ isna(fn.arg) => ~fn.cusp

C4_Witness ==
    /\ fn.op = "is_cusp"
    /\ fn.arg = Whole(78)
    /\ fn.cusp

\* C5 as stated: with rounded value v, for each boundary b in
\* {50, 60, 70, 80}: b-2 <= v < b-1 maps to b-2, b-1 <= v < b maps to b,
\* and every other percentage is left unchanged.
C5_Original ==
    (fn.op = "clean_cusps" /\ ~fn.raised) =>
        LET v == RoundHalfAway(fn.arg.v)
        IN  IF \E b \in {50, 60, 70, 80} : b - 2 <= v /\ v < b - 1
            THEN fn.pct = Whole(v)
            ELSE IF \E b \in {50, 60, 70, 80} : b - 1 <= v /\ v < b
            THEN fn.pct = Whole(v + 1)
            ELSE fn.pct = fn.arg

\* C5 amended: with v the percentage rounded to the nearest integer (ties to
\* the even one), for each boundary b in {50, 60, 70, 80}: b-2 <= v < b maps
\* to b; 45 <= v <= 47 maps to 44; every other percentage is left unchanged.
C5_Amended ==
    (fn.op = "clean_cusps" /\ ~fn.raised) =>
        LET v == round(fn.arg.v)
        IN  IF 45 <= v /\ v <= 47
            THEN fn.pct = Whole(44)
            ELSE IF \E b \in {50, 60, 70, 80} : b - 2 <= v /\ v < b
            THEN fn.pct = Whole(CHOOSE b \in {50, 60, 70, 80} : b - 2 <= v /\ v < b)
            ELSE fn.pct = fn.arg

C5_Witness ==
    /\ fn.op = "clean_cusps"
    /\ fn.arg = Whole(48)
    /\ fn.pct = Whole(50)

\* C10: cusp-avoidance never lowers a grade: the category after clean_cusps
\* is the category before it or the band immediately above, and a
\* percentage moved downward stays in NN.
C10_NeverLowersGrade ==
    (fn.op = "clean_cusps" /\ ~fn.raised) =>
        LET before == Rank(categorize_percentage(fn.arg))
            after == Rank(categorize_percentage(fn.pct))
        IN  /\ after \in {before, before + 1}
            /\ fn.pct.v < fn.arg.v => (before = 0 /\ after = 0)

C10_Witness ==
    /\ fn.op = "clean_cusps"
    /\ fn.arg = Whole(46)
    /\ fn.pct = Whole(44)
    /\ categorize_percentage(fn.pct) = "NN"

---------------------------------------------------------------------------
(* Table cleaning (SpecClean) *)

\* the cell holds "Points Possible", written out on the words
HasMarker(cell) ==
    \E i \in 1..(Len(cell) - 1) : cell[i] = "Points" /\ cell[i + 1] = "Possible"

\* indexes (from 1) of the marker rows among the first five
MarkerRows ==
    { i \in 1..Len(uploaded_file.rows) :
        i <= 5 /\ HasMarker(uploaded_file.rows[i][uploaded_file.columns[1]]) }

FirstMarkerRow == CHOOSE i \in MarkerRows : \A j \in MarkerRows : i <= j

ExpectedMax(cell) ==
    IF cell = << >> THEN NaN
    ELSE IF cell = << "20" >> THEN Whole(20)
    ELSE IF cell = << "7" >> THEN Whole(7)
    ELSE None

\* C9: only the first 5 rows are scanned for a first-column cell containing
\* "Points Possible" (case-sensitive). With the first such row at index k,
\* every other column's value at row k is recorded as its maximum (None
\* when unparsable), rows 0..k are discarded and the rest, in order, is the
\* cleaned table; with no such row the table passes through unchanged and
\* the maxima are empty.
C9_PointsRowCleaning ==
    pc = "remove_test" =>
        LET df == uploaded_file.rows
            others == ColumnSet(uploaded_file.columns) \ {uploaded_file.columns[1]}
        IN  IF MarkerRows = {}
            THEN df_clean = df /\ max_points_map = << >>
            ELSE /\ Len(df_clean) = Len(df) - FirstMarkerRow
                 /\ \A j \in 1..Len(df_clean) : df_clean[j] = df[FirstMarkerRow + j]
                 /\ \A c \in others :
                        max_points_map[c] = ExpectedMax(df[FirstMarkerRow][c])

C9_Witness ==
    /\ pc = "remove_test"
    /\ Len(uploaded_file.rows) = 6
    /\ MarkerRows = {5}
    /\ HasMarker(uploaded_file.rows[6]["Student"])
    /\ uploaded_file.rows[5][SCORE] = << "abc" >>
    /\ df_clean = << uploaded_file.rows[6] >>
    /\ max_points_map[SCORE] = None
    /\ max_points_map["ID"] = Whole(7)

---------------------------------------------------------------------------
(* A moderation run (Spec) *)

Reported == pc = "end" /\ REPORT \subseteq ui

ErrorShown ==
    ui \cap {"error: Error loading file", "error: Error processing file"} # {}

InRange(x) == IsNum(x) /\ PCT_MIN * Scale <= x.v /\ x.v <= PCT_MAX * Scale

\* C2: after a moderation run, whatever the roster size (a single record
\* included), the scores, the maximum, the targets and the cusp-avoidance
\* switch, every record's final Pct_Adjusted is a defined number in [0,100].
C2_AdjustedInRange ==
    Reported =>
        \A i \in 1..Len(analysis_df) : InRange(analysis_df[i].Pct_Adjusted)

\* C3: when the current spread is zero (all moderated records share one
\* Pct_Original, or there is a single record) and no smoothing is enabled,
\* Pct_Adjusted equals Pct_Original for every record, whatever the targets;
\* stated for percentages inside [0,100], which clipping leaves alone.
C3_ZeroSpreadIdentity ==
    ( /\ Reported
      /\ ~avoid_cusps
      /\ \A i, j \in 1..Len(analysis_df) :
            analysis_df[i].Pct_Original = analysis_df[j].Pct_Original
      /\ \A i \in 1..Len(analysis_df) : InRange(analysis_df[i].Pct_Original) )
    => \A i \in 1..Len(analysis_df) :
            analysis_df[i].Pct_Adjusted = analysis_df[i].Pct_Original

\* C6: with cusp-avoidance enabled, after a run no record's final
\* Pct_Adjusted lies in [b-2, b) for a boundary b in {50, 60, 70, 80}, and
\* Is_Cusp_Adjusted is false for every record.
C6_NoCuspAfterAvoidance ==
    (Reported /\ avoid_cusps) =>
        \A i \in 1..Len(analysis_df) :
            /\ ~analysis_df[i].Is_Cusp_Adjusted
            /\ ~\E b \in {50, 60, 70, 80} :
                    /\ (b - 2) * Scale <= analysis_df[i].Pct_Adjusted.v
                    /\ analysis_df[i].Pct_Adjusted.v < b * Scale

\* C7: when cleaning yields no candidate scored column, the run ends with a
\* user-visible error message and without statistics, migration table,
\* record tables or export.
C7_NoScoredColumnsReported ==
    (pc = "end" /\ uploaded_file.kind = "csv" /\ numeric_cols = << >>) =>
        /\ ErrorShown
        /\ ui \cap REPORT = {}

\* C8: every raw-to-percentage conversion divides by a non-zero maximum:
\* once a column is selected, the maximum the original statistics were
\* divided by is not 0 and the original mean read by the gentle boost is a
\* finite number, and so is every Pct_Original.
C8_NonZeroDivisor ==
    score_col # "None" =>
        /\ ~(IsNum(max_score) /\ max_score.v = 0)
        /\ IsNum(orig_mean)
        /\ \A i \in 1..Len(analysis_df) : IsNum(analysis_df[i].Pct_Original)

===========================================================================
